---- MODULE Spec2Model ----
(***************************************************************************)
(* Ticket_Categorization_Automation: one run of main() (src/main.py), with *)
(* the data loader (src/ticket_classifier/data_loader.py) and the LLM      *)
(* client (src/ticket_classifier/llm_client.py) it drives.                 *)
(*                                                                         *)
(* JSON texts are sequences of tokens and JSON values are tagged records,  *)
(* so that json.load / json.loads / json.dump are computed, not assumed.   *)
(***************************************************************************)
EXTENDS Integers, Sequences, FiniteSets, TLC

\* ------------------------------------------------------------------------
\* JSON values, as Python's json module builds them.
\*   str  -> [t |-> "str",  s |-> lexeme]
\*   int  -> [t |-> "num",  n |-> lexeme]
\*   None / True / False -> [t |-> "lit", v |-> "null" | "true" | "false"]
\*   list -> [t |-> "arr",  items |-> sequence of values]
\*   dict -> [t |-> "obj",  keys |-> sequence of strings (insertion order),
\*                          vals |-> sequence of values]
\* ------------------------------------------------------------------------
JStr(s) == [t |-> "str", s |-> s]
JNum(n) == [t |-> "num", n |-> n]
JLit(v) == [t |-> "lit", v |-> v]
JArr(items) == [t |-> "arr", items |-> items]
JObj(keys, vals) == [t |-> "obj", keys |-> keys, vals |-> vals]
JNull == JLit("null")

\* Tokens of a JSON text: punctuation, string literals, number literals, the
\* three JSON words, whitespace, and anything else ("bare": not JSON).
Tok(k, v) == [k |-> k, v |-> v]
P(c) == Tok("punct", c)
S(s) == Tok("str", s)
Ws(s) == Tok("ws", s)

\* dict.get(key, default) on a dict value.
HasKey(o, key) == \E i \in 1..Len(o.keys) : o.keys[i] = key
Get(o, key, default) ==
    IF HasKey(o, key)
    THEN o.vals[CHOOSE i \in 1..Len(o.keys) : o.keys[i] = key]
    ELSE default

\* dict[key] = val : a repeated key keeps its first position and takes the
\* last value.
Put(o, key, val) ==
    IF HasKey(o, key)
    THEN LET i == CHOOSE j \in 1..Len(o.keys) : o.keys[j] = key
         IN JObj(o.keys, [o.vals EXCEPT ![i] = val])
    ELSE JObj(Append(o.keys, key), Append(o.vals, val))

\* ------------------------------------------------------------------------
\* json.loads: the scanner of the standard decoder.
\* A parse result is [ok, val, next]: next is the index after the value.
\* ------------------------------------------------------------------------
ParseFail == [ok |-> FALSE, val |-> JNull, next |-> 0]
ParseOk(v, n) == [ok |-> TRUE, val |-> v, next |-> n]

RECURSIVE SkipWs(_, _)
SkipWs(toks, i) ==
    IF i <= Len(toks) /\ toks[i].k = "ws" THEN SkipWs(toks, i + 1) ELSE i

At(toks, i, tk) == i <= Len(toks) /\ toks[i] = tk

RECURSIVE ParseValue(_, _)
RECURSIVE ParseItems(_, _, _)
RECURSIVE ParseMembers(_, _, _)

\* scan_once: one value starting exactly at index i.
ParseValue(toks, i) ==
    IF i > Len(toks) THEN ParseFail
    ELSE LET tk == toks[i] IN
         CASE tk.k = "str" -> ParseOk(JStr(tk.v), i + 1)
           [] tk.k = "num" -> ParseOk(JNum(tk.v), i + 1)
           [] tk.k = "lit" -> ParseOk(JLit(tk.v), i + 1)
           [] tk = P("[") ->
                LET j == SkipWs(toks, i + 1)
                IN IF At(toks, j, P("]")) THEN ParseOk(JArr(<<>>), j + 1)
                   ELSE ParseItems(toks, j, <<>>)
           [] tk = P("{") ->
                LET j == SkipWs(toks, i + 1)
                IN IF At(toks, j, P("}")) THEN ParseOk(JObj(<<>>, <<>>), j + 1)
                   ELSE ParseMembers(toks, j, JObj(<<>>, <<>>))
           [] OTHER -> ParseFail

\* JSONArray: value, then "," (and another value) or "]".
ParseItems(toks, i, acc) ==
    LET r == ParseValue(toks, i) IN
    IF ~r.ok THEN ParseFail
    ELSE LET j == SkipWs(toks, r.next)
             items == Append(acc, r.val)
         IN IF At(toks, j, P("]")) THEN ParseOk(JArr(items), j + 1)
            ELSE IF At(toks, j, P(","))
                 THEN ParseItems(toks, SkipWs(toks, j + 1), items)
                 ELSE ParseFail

\* JSONObject: string key, ":", value, then "," (and another member) or "}".
ParseMembers(toks, i, acc) ==
    IF ~(i <= Len(toks) /\ toks[i].k = "str") THEN ParseFail
    ELSE LET c == SkipWs(toks, i + 1) IN
         IF ~At(toks, c, P(":")) THEN ParseFail
         ELSE LET r == ParseValue(toks, SkipWs(toks, c + 1)) IN
              IF ~r.ok THEN ParseFail
              ELSE LET j == SkipWs(toks, r.next)
                       obj == Put(acc, toks[i].v, r.val)
                   IN IF At(toks, j, P("}")) THEN ParseOk(obj, j + 1)
                      ELSE IF At(toks, j, P(","))
                           THEN ParseMembers(toks, SkipWs(toks, j + 1), obj)
                           ELSE ParseFail

\* json.loads(text): leading whitespace, one value, trailing whitespace, end
\* of text; anything else is a JSONDecodeError.
JsonLoads(toks) ==
    LET r == ParseValue(toks, SkipWs(toks, 1)) IN
    IF r.ok /\ SkipWs(toks, r.next) = Len(toks) + 1 THEN r ELSE ParseFail

\* ------------------------------------------------------------------------
\* json.dump(value, f, indent=2): the text written for a value.
\* ------------------------------------------------------------------------
\* "\n" followed by indent * level spaces (indent = 2)
RECURSIVE Spaces(_)
Spaces(n) == IF n = 0 THEN "" ELSE " " \o Spaces(n - 1)

NewlineIndent(level) == Ws("\n" \o Spaces(2 * level))

RECURSIVE JsonDump(_, _)
RECURSIVE DumpItems(_, _, _)
RECURSIVE DumpMembers(_, _, _)

JsonDump(v, level) ==
    CASE v.t = "str" -> <<S(v.s)>>
      [] v.t = "num" -> <<Tok("num", v.n)>>
      [] v.t = "lit" -> <<Tok("lit", v.v)>>
      [] v.t = "arr" ->
           IF Len(v.items) = 0 THEN <<P("["), P("]")>>
           ELSE <<P("["), NewlineIndent(level + 1)>>
                \o DumpItems(v.items, 1, level + 1)
                \o <<NewlineIndent(level), P("]")>>
      [] v.t = "obj" ->
           IF Len(v.keys) = 0 THEN <<P("{"), P("}")>>
           ELSE <<P("{"), NewlineIndent(level + 1)>>
                \o DumpMembers(v, 1, level + 1)
                \o <<NewlineIndent(level), P("}")>>

DumpItems(items, i, level) ==
    JsonDump(items[i], level)
    \o (IF i = Len(items) THEN <<>>
        ELSE <<P(","), NewlineIndent(level)>> \o DumpItems(items, i + 1, level))

DumpMembers(o, i, level) ==
    <<S(o.keys[i]), P(":"), Ws(" ")>>
    \o JsonDump(o.vals[i], level)
    \o (IF i = Len(o.keys) THEN <<>>
        ELSE <<P(","), NewlineIndent(level)>> \o DumpMembers(o, i + 1, level))

\* json.dumps(value) with the default separators (", " and ": "), as the
\* tests write their input files.
RECURSIVE JsonDumps(_)
RECURSIVE DumpsItems(_, _)
RECURSIVE DumpsMembers(_, _)

JsonDumps(v) ==
    CASE v.t = "str" -> <<S(v.s)>>
      [] v.t = "num" -> <<Tok("num", v.n)>>
      [] v.t = "lit" -> <<Tok("lit", v.v)>>
      [] v.t = "arr" -> <<P("[")>> \o DumpsItems(v.items, 1) \o <<P("]")>>
      [] v.t = "obj" -> <<P("{")>> \o DumpsMembers(v, 1) \o <<P("}")>>

DumpsItems(items, i) ==
    IF i > Len(items) THEN <<>>
    ELSE JsonDumps(items[i])
         \o (IF i = Len(items) THEN <<>>
             ELSE <<P(","), Ws(" ")>> \o DumpsItems(items, i + 1))

DumpsMembers(o, i) ==
    IF i > Len(o.keys) THEN <<>>
    ELSE <<S(o.keys[i]), P(":"), Ws(" ")>> \o JsonDumps(o.vals[i])
         \o (IF i = Len(o.keys) THEN <<>>
             ELSE <<P(","), Ws(" ")>> \o DumpsMembers(o, i + 1))

\* ------------------------------------------------------------------------
\* Python built-ins the program applies to parsed JSON.
\* ------------------------------------------------------------------------
\* bool(value)
Truthy(v) ==
    CASE v.t = "str" -> v.s # ""
      [] v.t = "num" -> v.n # "0"
      [] v.t = "lit" -> v.v = "true"
      [] v.t = "arr" -> Len(v.items) > 0
      [] v.t = "obj" -> Len(v.keys) > 0

\* len(value) is defined (else TypeError)
Sized(v) == v.t \in {"str", "arr", "obj"}

\* iter(value) is defined (else TypeError)
Iterable(v) == v.t \in {"str", "arr", "obj"}

\* The characters of the strings the model iterates over.
Chars(s) ==
    CASE s = "" -> <<>>
      [] s = "Bug" -> <<"B", "u", "g">>
      [] s = "value" -> <<"v", "a", "l", "u", "e">>
      [] OTHER -> <<s>>

\* list(iter(value)): a list's items, a dict's keys, a string's characters.
Elems(v) ==
    CASE v.t = "arr" -> v.items
      [] v.t = "obj" -> [i \in 1..Len(v.keys) |-> JStr(v.keys[i])]
      [] v.t = "str" -> LET cs == Chars(v.s) IN [i \in 1..Len(cs) |-> JStr(cs[i])]
      [] OTHER -> <<>>

\* sep.join(strings)
RECURSIVE StrJoin(_, _)
StrJoin(sep, strs) ==
    IF Len(strs) = 0 THEN ""
    ELSE IF Len(strs) = 1 THEN strs[1]
    ELSE strs[1] \o sep \o StrJoin(sep, Tail(strs))

\* sep.join(value) raises TypeError unless value is an iterable of str.
Joinable(v) == Iterable(v) /\ \A i \in 1..Len(Elems(v)) : Elems(v)[i].t = "str"
Join(sep, v) == StrJoin(sep, [i \in 1..Len(Elems(v)) |-> Elems(v)[i].s])

\* ------------------------------------------------------------------------
\* Exceptions: the class of each exception type the run can meet.
\* ------------------------------------------------------------------------
NoExc == ""

Base(type) ==
    CASE type = "FileNotFoundError" -> "OSError"
      [] type = "PermissionError" -> "OSError"
      [] type = "OSError" -> "Exception"
      [] type = "UnicodeDecodeError" -> "ValueError"
      [] type = "JSONDecodeError" -> "ValueError"
      [] type = "ValueError" -> "Exception"
      [] type = "APITimeoutError" -> "APIConnectionError"
      [] type = "APIConnectionError" -> "APIError"
      [] type = "AuthenticationError" -> "APIStatusError"
      [] type = "RateLimitError" -> "APIStatusError"
      [] type = "InternalServerError" -> "APIStatusError"
      [] type = "APIStatusError" -> "APIError"
      [] type = "APIError" -> "OpenAIError"
      [] OTHER -> "Exception"

RECURSIVE IsInstance(_, _)
IsInstance(type, cls) ==
    \/ type = cls
    \/ type # "Exception" /\ IsInstance(Base(type), cls)

\* ------------------------------------------------------------------------
\* data_loader.py
\* ------------------------------------------------------------------------
\* open(path, 'r', encoding='utf-8') and f.read(): the exception raised, if
\* any, for each state of a file.
ReadError(file) ==
    CASE file.state = "missing" -> "FileNotFoundError"
      [] file.state = "unreadable" -> "PermissionError"
      [] file.state = "undecodable" -> "UnicodeDecodeError"
      [] OTHER -> NoExc

load_ticket(file) ==
    LET e == ReadError(file) IN
    IF e = NoExc THEN [exc |-> NoExc, val |-> file.content]
    ELSE IF IsInstance(e, "FileNotFoundError")
         THEN [exc |-> "TicketLoadError", val |-> ""]
    ELSE IF IsInstance(e, "OSError")
         THEN [exc |-> "TicketLoadError", val |-> ""]
    ELSE [exc |-> e, val |-> ""]

load_categories(file) ==
    LET e == IF ReadError(file) # NoExc THEN ReadError(file)
             ELSE IF ~JsonLoads(file.content).ok THEN "JSONDecodeError"
             ELSE NoExc
    IN IF e = NoExc THEN [exc |-> NoExc, val |-> JsonLoads(file.content).val]
       ELSE IF IsInstance(e, "FileNotFoundError")
            THEN [exc |-> "CategoriesLoadError", val |-> JNull]
       ELSE IF IsInstance(e, "JSONDecodeError") \/ IsInstance(e, "OSError")
            THEN [exc |-> "CategoriesLoadError", val |-> JNull]
       ELSE [exc |-> e, val |-> JNull]

\* ------------------------------------------------------------------------
\* config.py
\* ------------------------------------------------------------------------
MODEL == "gpt-4.1"
TIMEOUT_SECONDS == 60

\* ------------------------------------------------------------------------
\* llm_client.py
\* ------------------------------------------------------------------------
\* A client that checks for the key only when a request is sent.
ClientInitLazy(key) == NoExc

\* OpenAI(api_key=OPENAI_API_KEY): the constructor of the openai client
\* raises OpenAIError when it is given no key (os.getenv returned None and
\* the environment holds none either).  A key is <<>> (None) or <<string>>.
ClientInitError(key) == IF key = <<>> THEN "OpenAIError" ELSE NoExc

\* function_schema: its name and its "required" lists.
FunctionName == "classify_ticket"
RequiredTop == <<"case_1", "case_2", "case_3">>
RequiredCase1 == <<"category", "subcategory">>
RequiredCase2 == <<"category", "subcategories", "reason">>
RequiredCase3 == <<"category", "subcategories", "comment">>

\* _build_messages: " > ".join(path) for each element of category_paths,
\* the lines joined by "\n".  TypeError when category_paths cannot be
\* iterated or an element is not an iterable of strings.
BuildError(category_paths) ==
    IF /\ Iterable(category_paths)
       /\ \A i \in 1..Len(Elems(category_paths)) : Joinable(Elems(category_paths)[i])
    THEN NoExc ELSE "TypeError"

PathsStr(category_paths) ==
    LET paths == Elems(category_paths)
    IN StrJoin("\n", [i \in 1..Len(paths) |-> Join(" > ", paths[i])])

\* The two messages; the fixed text of the prompt template is left out, its
\* two interpolated fields are kept.
BuildMessages(ticket_text, category_paths) ==
    << [role |-> "system",
        content |-> [text |-> "You are a ticket classification assistant.",
                     ticket |-> "", paths |-> ""]],
       [role |-> "user",
        content |-> [text |-> "Part 1 ... Respond using the structured output function.",
                     ticket |-> ticket_text,
                     paths |-> PathsStr(category_paths)]] >>

\* The keyword arguments of chat.completions.create.
Request(messages) ==
    [model |-> MODEL, messages |-> messages, functions |-> <<FunctionName>>,
     function_call |-> FunctionName, temperature |-> 0,
     timeout |-> TIMEOUT_SECONDS]

\* response.choices[0].message.function_call.arguments, then json.loads.
\* A response is [choices |-> sequence of [function_call |-> <<>> (None) or
\* <<[name, arguments]>>]].
ReadArguments(response) ==
    IF Len(response.choices) = 0 THEN [exc |-> "IndexError", val |-> JNull]
    ELSE IF response.choices[1].function_call = <<>>
         THEN [exc |-> "AttributeError", val |-> JNull]
    ELSE LET r == JsonLoads(response.choices[1].function_call[1].arguments)
         IN IF r.ok THEN [exc |-> NoExc, val |-> r.val]
            ELSE [exc |-> "JSONDecodeError", val |-> JNull]

\* ------------------------------------------------------------------------
\* main.py: format_classification_result
\* ------------------------------------------------------------------------
\* The first exception among a sequence of checks ("" when none raises).
RECURSIVE FirstError(_)
FirstError(errs) ==
    IF Len(errs) = 0 THEN NoExc
    ELSE IF errs[1] # NoExc THEN errs[1] ELSE FirstError(Tail(errs))

\* ', '.join(subcats) if subcats else 'N/A'
SubcatsError(entry) ==
    LET subcats == Get(entry, "subcategories", JArr(<<>>))
    IN IF Truthy(subcats) /\ ~Joinable(subcats) THEN "TypeError" ELSE NoExc

\* One entry of case_2: issue.get(...) needs a dict; the subcategories are
\* joined; the reasons are iterated.
IssueError(issue) ==
    IF issue.t # "obj" THEN "AttributeError"
    ELSE LET reasons == Get(issue, "reason", JArr(<<>>))
         IN FirstError(<< SubcatsError(issue),
                          IF Truthy(reasons) /\ ~Iterable(reasons)
                          THEN "TypeError" ELSE NoExc >>)

\* One entry of case_3: category.get(...) needs a dict; the subcategories
\* are joined; the comment is only formatted.
CategoryError(category) ==
    IF category.t # "obj" THEN "AttributeError" ELSE SubcatsError(category)

FormatError(result) ==
    IF result.t # "obj" THEN "AttributeError"
    ELSE LET case_1 == Get(result, "case_1", JObj(<<>>, <<>>))
             case_2 == Get(result, "case_2", JArr(<<>>))
             case_3 == Get(result, "case_3", JArr(<<>>))
         IN FirstError(<<
              IF Truthy(case_1) /\ case_1.t # "obj" THEN "AttributeError" ELSE NoExc,
              IF ~Truthy(case_2) THEN NoExc
              ELSE IF ~Iterable(case_2) THEN "TypeError"
              ELSE FirstError([i \in 1..Len(Elems(case_2)) |-> IssueError(Elems(case_2)[i])]),
              IF ~Truthy(case_3) THEN NoExc
              ELSE IF ~Iterable(case_3) THEN "TypeError"
              ELSE FirstError([i \in 1..Len(Elems(case_3)) |-> CategoryError(Elems(case_3)[i])])
            >>)

\* What print() shows of a result: the two case_1 lines, with the 'N/A'
\* defaults, and the number of entries listed for case_2 and case_3.
Shown(v) == IF v.t = "str" THEN v.s ELSE "<repr>"

FormatResult(result) ==
    LET case_1 == Get(result, "case_1", JObj(<<>>, <<>>))
        case_2 == Get(result, "case_2", JArr(<<>>))
        case_3 == Get(result, "case_3", JArr(<<>>))
    IN [category |-> IF Truthy(case_1) THEN Shown(Get(case_1, "category", JStr("N/A"))) ELSE "",
        subcategory |-> IF Truthy(case_1) THEN Shown(Get(case_1, "subcategory", JStr("N/A"))) ELSE "",
        issues |-> Len(Elems(case_2)),
        classifications |-> Len(Elems(case_3))]

\* ------------------------------------------------------------------------
\* The inputs of one run.
\* ------------------------------------------------------------------------
\* The longest case_2 / case_3 array in a service answer.
MaxEntries == 1

Node(value, subs) == JObj(<<"value", "subcategories">>, <<JStr(value), JArr(subs)>>)
Leaf(value) == JObj(<<"value">>, <<JStr(value)>>)

\* Taxonomy documents: the spec's two-branch example, the tests' two, an
\* empty forest, a three-level tree with a described root, already
\* flattened paths, and JSON that is no forest at all.
IssueTypeTree == JArr(<<Node("Issue Type", <<Leaf("Bug"), Leaf("Feature Request")>>)>>)
Taxonomies ==
    { IssueTypeTree,
      JArr(<<Node("Priority", <<>>)>>),
      JArr(<<Node("Issue Type", <<Leaf("Bug")>>)>>),
      JArr(<<>>),
      JArr(<< JObj(<<"value", "description", "subcategories">>,
                   <<JStr("Component"), JStr("Affected part"),
                     JArr(<<Node("Backend", <<Leaf("API")>>)>>)>>),
              Leaf("Priority") >>),
      JArr(<<JArr(<<JStr("Issue Type"), JStr("Bug")>>)>>),
      JArr(<<JStr("Bug")>>),
      JArr(<<JNum("5")>>),
      JNum("5") }

InvalidJson == <<P("{"), Ws(" "), Tok("bare", "invalid"), Ws(" "),
                 Tok("bare", "json"), Ws(" "), P("}")>>

TicketFiles ==
    { [state |-> "missing", content |-> ""],
      [state |-> "unreadable", content |-> ""],
      [state |-> "undecodable", content |-> ""],
      [state |-> "ok", content |-> "App crashes on login"] }

CategoriesFiles ==
    { [state |-> "missing", content |-> <<>>],
      [state |-> "unreadable", content |-> <<>>],
      [state |-> "undecodable", content |-> <<>>],
      [state |-> "ok", content |-> InvalidJson] }
    \cup { [state |-> "ok", content |-> JsonDumps(t)] : t \in Taxonomies }

\* OPENAI_API_KEY: unset (os.getenv gives None) or set.
ApiKeys == { <<>>, <<"sk-test">> }

\* The answers of the model service.
SeqsUpTo(set, n) == UNION { [1..k -> set] : k \in 0..n }

Case1Values ==
    { JObj(<<"category", "subcategory">>, <<JStr("Issue Type"), JStr("Bug")>>),
      JObj(<<"category">>, <<JStr("Issue Type")>>),
      JStr("Bug") }
Case2Entries ==
    { JObj(<<"category", "subcategories", "reason">>,
           <<JStr("Issue Type"), JArr(<<JStr("Bug")>>), JArr(<<JStr("crash")>>)>>),
      JObj(<<"category", "subcategories">>,
           <<JStr("Issue Type"), JArr(<<JStr("Bug")>>)>>) }
Case3Entries ==
    { JObj(<<"category", "subcategories", "comment">>,
           <<JStr("Priority"), JArr(<<JStr("High")>>), JStr("blocks login")>>),
      JObj(<<"category", "subcategories">>,
           <<JStr("Priority"), JArr(<<JNum("5")>>)>>) }

ResultValues ==
    { JObj(<<"case_1", "case_2", "case_3">>, <<c1, JArr(c2), JArr(c3)>>) :
        c1 \in Case1Values,
        c2 \in SeqsUpTo(Case2Entries, MaxEntries),
        c3 \in SeqsUpTo(Case3Entries, MaxEntries) }
    \cup { JObj(<<"case_1", "case_2">>,
                <<JObj(<<"category", "subcategory">>, <<JStr("Issue Type"), JStr("Bug")>>),
                  JArr(<<>>)>>),
           JArr(<<>>) }

TruncatedJson == <<P("{"), S("case_1"), P(":")>>

ArgumentsTexts ==
    { JsonDumps(v) : v \in ResultValues } \cup { InvalidJson, TruncatedJson }

WellFormedArguments ==
    JsonDumps(JObj(<<"case_1", "case_2", "case_3">>,
                   <<JObj(<<"category", "subcategory">>, <<JStr("Issue Type"), JStr("Bug")>>),
                     JArr(<<>>), JArr(<<>>)>>))

Responses ==
    { [choices |-> <<>>],
      [choices |-> <<[function_call |-> <<>>]>>],
      [choices |-> <<[function_call |->
                        <<[name |-> "other_function", arguments |-> WellFormedArguments]>>]>>] }
    \cup { [choices |-> <<[function_call |->
                             <<[name |-> FunctionName, arguments |-> a]>>]>>] :
             a \in ArgumentsTexts }

\* What chat.completions.create raises instead of answering.
ServiceFaults ==
    { "APITimeoutError", "APIConnectionError", "AuthenticationError",
      "RateLimitError", "InternalServerError" }

\* ------------------------------------------------------------------------
\* The state of one run of main().
\* ------------------------------------------------------------------------
VARIABLES
    pc,            \* the statement main() is at
    ticketFile,    \* the file at args.ticket
    catFile,       \* the file at args.categories
    apiKey,        \* config.OPENAI_API_KEY
    output,        \* args.output: <<>> (not given) or <<path>>
    outWritable,   \* whether open(args.output, 'w') succeeds
    outFile,       \* the file at args.output
    ticket_text,   \* main's local, <<>> while unbound
    categories,    \* main's local, <<>> while unbound
    client,        \* main's local, <<>> while unbound
    messages,      \* classify's local, <<>> while unbound
    requests,      \* the calls of chat.completions.create made so far
    response,      \* what the service answered, <<>> while none
    result,        \* main's local, <<>> while unbound
    stdout,        \* what was printed
    stderr,        \* what was printed to sys.stderr
    exc,           \* the exception being handled: its type and where raised
    opened,        \* the input files opened so far, in order
    saves,         \* the calls of save_results made so far
    returned       \* main's return value, <<>> while running

vars == <<pc, ticketFile, catFile, apiKey, output, outWritable, outFile,
          ticket_text, categories, client, messages, requests, response,
          result, stdout, stderr, exc, opened, saves, returned>>

env == <<ticketFile, catFile, apiKey, output, outWritable>>

NoFile == [state |-> "absent", content |-> <<>>]
OldFile == [state |-> "present", content |-> <<S("old")>>]
NoException == [type |-> NoExc, at |-> ""]

Init ==
    /\ pc = "start"
    /\ ticketFile \in TicketFiles
    /\ catFile \in CategoriesFiles
    /\ apiKey \in ApiKeys
    /\ \/ output = <<>> /\ outWritable = TRUE /\ outFile = NoFile
       \/ /\ output = <<"out.json">>
          /\ outWritable \in BOOLEAN
          /\ outFile \in {NoFile, OldFile}
    /\ ticket_text = <<>>
    /\ categories = <<>>
    /\ client = <<>>
    /\ messages = <<>>
    /\ requests = <<>>
    /\ response = <<>>
    /\ result = <<>>
    /\ stdout = <<>>
    /\ stderr = <<>>
    /\ exc = NoException
    /\ opened = <<>>
    /\ saves = <<>>
    /\ returned = <<>>

\* An exception of the given type leaves the try block at the current
\* statement.
Raise(type) ==
    /\ exc' = [type |-> type, at |-> pc]
    /\ pc' = "except"

\* main lines 116-123: the arguments are parsed, the two paths are logged.
Start ==
    /\ pc = "start"
    /\ pc' = "load_ticket"
    /\ UNCHANGED <<env, outFile, ticket_text, categories, client, messages, requests,
                   response, result, stdout, stderr, exc, opened, saves, returned>>

\* load_data, first statement: ticket_text = load_ticket(ticket_path)
LoadTicket ==
    /\ pc = "load_ticket"
    /\ opened' = Append(opened, "ticket")
    /\ LET r == load_ticket(ticketFile) IN
       IF r.exc # NoExc
       THEN Raise(r.exc) /\ UNCHANGED ticket_text
       ELSE /\ ticket_text' = <<r.val>>
            /\ pc' = "load_categories"
            /\ UNCHANGED exc
    /\ UNCHANGED <<env, outFile, categories, client, messages, requests, response,
                   result, stdout, stderr, saves, returned>>

\* A loader that falls back to an empty taxonomy when the file cannot be
\* loaded.
LoadCategoriesLenient ==
    /\ pc = "load_categories"
    /\ opened' = Append(opened, "categories")
    /\ LET r == load_categories(catFile) IN
       /\ categories' = <<IF r.exc # NoExc THEN JArr(<<>>) ELSE r.val>>
       /\ pc' = "log_loaded"
       /\ UNCHANGED exc
    /\ UNCHANGED <<env, outFile, ticket_text, client, messages, requests, response,
                   result, stdout, stderr, saves, returned>>

\* load_data, second statement: raw_categories = load_categories(...)
LoadCategories ==
    /\ pc = "load_categories"
    /\ opened' = Append(opened, "categories")
    /\ LET r == load_categories(catFile) IN
       IF r.exc # NoExc
       THEN Raise(r.exc) /\ UNCHANGED categories
       ELSE /\ categories' = <<r.val>>
            /\ pc' = "log_loaded"
            /\ UNCHANGED exc
    /\ UNCHANGED <<env, outFile, ticket_text, client, messages, requests, response,
                   result, stdout, stderr, saves, returned>>

\* main lines 128-129: the f-strings take len(ticket_text), len(categories).
LogLoaded ==
    /\ pc = "log_loaded"
    /\ IF Sized(categories[1])
       THEN pc' = "init_client" /\ UNCHANGED exc
       ELSE Raise("TypeError")
    /\ UNCHANGED <<env, outFile, ticket_text, categories, client, messages, requests,
                   response, result, stdout, stderr, opened, saves, returned>>

\* main line 133: client = LLMClient()
InitClient ==
    /\ pc = "init_client"
    /\ IF ClientInitError(apiKey) # NoExc
       THEN Raise(ClientInitError(apiKey)) /\ UNCHANGED client
       ELSE /\ client' = <<[api_key |-> apiKey, model |-> MODEL,
                            timeout |-> TIMEOUT_SECONDS]>>
            /\ pc' = "build_messages"
            /\ UNCHANGED exc
    /\ UNCHANGED <<env, messages, outFile, ticket_text, categories, requests, response,
                   result, stdout, stderr, opened, saves, returned>>

\* classify, line 97: messages = self._build_messages(ticket_text, ...)
BuildPrompt ==
    /\ pc = "build_messages"
    /\ IF BuildError(categories[1]) # NoExc
       THEN Raise(BuildError(categories[1])) /\ UNCHANGED messages
       ELSE /\ messages' = BuildMessages(ticket_text[1], categories[1])
            /\ pc' = "create"
            /\ UNCHANGED exc
    /\ UNCHANGED <<env, outFile, ticket_text, categories, client, requests,
                   response, result, stdout, stderr, opened, saves, returned>>

\* A client that sends the request again after a fault of the first attempt.
CreateWithRetry ==
    /\ pc = "create"
    /\ requests' = Append(requests, Request(messages))
    /\ \/ \E r \in Responses :
            /\ response' = <<r>>
            /\ pc' = "read_arguments"
            /\ UNCHANGED exc
       \/ \E f \in ServiceFaults :
            IF Len(requests) = 0
            THEN UNCHANGED <<pc, exc, response>>
            ELSE Raise(f) /\ UNCHANGED response
    /\ UNCHANGED <<env, outFile, ticket_text, categories, client, messages,
                   result, stdout, stderr, opened, saves, returned>>

\* classify, lines 98-105: chat.completions.create is called; the service
\* answers, or the call raises.
Create ==
    /\ pc = "create"
    /\ requests' = Append(requests, Request(messages))
    /\ \/ \E r \in Responses :
            /\ response' = <<r>>
            /\ pc' = "read_arguments"
            /\ UNCHANGED exc
       \/ \E f \in ServiceFaults :
            Raise(f) /\ UNCHANGED response
    /\ UNCHANGED <<env, outFile, ticket_text, categories, client, messages,
                   result, stdout, stderr, opened, saves, returned>>

\* classify, lines 106-107: the arguments of the function call are parsed
\* and returned; main binds them to result.
ReturnResult ==
    /\ pc = "read_arguments"
    /\ LET r == ReadArguments(response[1]) IN
       IF r.exc # NoExc
       THEN Raise(r.exc) /\ UNCHANGED result
       ELSE /\ result' = <<r.val>>
            /\ pc' = "display"
            /\ UNCHANGED exc
    /\ UNCHANGED <<env, outFile, ticket_text, categories, client, messages, requests,
                   response, stdout, stderr, opened, saves, returned>>

\* A formatter that fills the missing cases in with result.setdefault.
DisplaySetsDefaults ==
    /\ pc = "display"
    /\ IF FormatError(result[1]) # NoExc
       THEN Raise(FormatError(result[1])) /\ UNCHANGED <<stdout, result>>
       ELSE /\ result' = <<IF HasKey(result[1], "case_3") THEN result[1]
                            ELSE Put(result[1], "case_3", JArr(<<>>))>>
            /\ stdout' = Append(stdout, [line |-> "classification",
                                         shows |-> FormatResult(result'[1]),
                                         of |-> result'[1]])
            /\ pc' = IF output # <<>> THEN "save" ELSE "return"
            /\ UNCHANGED exc
    /\ UNCHANGED <<env, outFile, ticket_text, categories, client, messages, requests,
                   response, stderr, opened, saves, returned>>

\* main line 139: print("\n" + format_classification_result(result))
Display ==
    /\ pc = "display"
    /\ IF FormatError(result[1]) # NoExc
       THEN Raise(FormatError(result[1])) /\ UNCHANGED stdout
       ELSE /\ stdout' = Append(stdout, [line |-> "classification",
                                         shows |-> FormatResult(result[1]),
                                         of |-> result[1]])
            /\ pc' = IF output # <<>> THEN "save" ELSE "return"
            /\ UNCHANGED exc
    /\ UNCHANGED <<env, outFile, ticket_text, categories, client, messages, requests,
                   response, result, stderr, opened, saves, returned>>

\* save_results(result, args.output), then the "Results saved" line.
Save ==
    /\ pc = "save"
    /\ saves' = Append(saves, result[1])
    /\ IF outWritable
       THEN /\ outFile' = [state |-> "present", content |-> JsonDump(result[1], 0)]
            /\ stdout' = Append(stdout, [line |-> "saved",
                                         shows |-> FormatResult(result[1]),
                                         of |-> result[1]])
            /\ pc' = "return"
            /\ UNCHANGED exc
       ELSE Raise("PermissionError") /\ UNCHANGED <<outFile, stdout>>
    /\ UNCHANGED <<env, ticket_text, categories, client, messages, requests, response,
                   result, stderr, opened, returned>>

\* main line 146: return 0
ReturnZero ==
    /\ pc = "return"
    /\ returned' = <<0>>
    /\ pc' = "exited"
    /\ UNCHANGED <<env, outFile, ticket_text, categories, client, messages, requests,
                   response, result, stdout, stderr, exc, opened, saves>>

\* The three except clauses: the first whose class the exception is an
\* instance of prints "Error: ..." to stderr and returns 1.
Handle(clause) ==
    /\ stderr' = Append(stderr, [clause |-> clause, error |-> exc.type])
    /\ returned' = <<1>>
    /\ pc' = "exited"
    /\ UNCHANGED <<env, outFile, ticket_text, categories, client, messages, requests,
                   response, result, stdout, exc, opened, saves>>

ExceptTicketLoadError ==
    /\ pc = "except"
    /\ IsInstance(exc.type, "TicketLoadError")
    /\ Handle("TicketLoadError")

ExceptCategoriesLoadError ==
    /\ pc = "except"
    /\ ~IsInstance(exc.type, "TicketLoadError")
    /\ IsInstance(exc.type, "CategoriesLoadError")
    /\ Handle("CategoriesLoadError")

\* A last clause that catches OSError only.
ExceptOSError ==
    /\ pc = "except"
    /\ ~IsInstance(exc.type, "TicketLoadError")
    /\ ~IsInstance(exc.type, "CategoriesLoadError")
    /\ IsInstance(exc.type, "OSError")
    /\ Handle("Exception")

ExceptException ==
    /\ pc = "except"
    /\ ~IsInstance(exc.type, "TicketLoadError")
    /\ ~IsInstance(exc.type, "CategoriesLoadError")
    /\ IsInstance(exc.type, "Exception")
    /\ Handle("Exception")

Next ==
    \/ Start
    \/ LoadTicket
    \/ LoadCategories
    \/ LogLoaded
    \/ InitClient
    \/ BuildPrompt
    \/ Create
    \/ ReturnResult
    \/ Display
    \/ Save
    \/ ReturnZero
    \/ ExceptTicketLoadError
    \/ ExceptCategoriesLoadError
    \/ ExceptException

Spec == Init /\ [][Next]_vars

\* ========================================================================
\* Properties
\* ========================================================================
LoadsSucceeded ==
    /\ load_ticket(ticketFile).exc = NoExc
    /\ load_categories(catFile).exc = NoExc
    /\ ticket_text # <<>>
    /\ categories # <<>>

\* The arguments text of the answer, when the answer holds a function call.
HasArguments ==
    /\ response # <<>>
    /\ Len(response[1].choices) > 0
    /\ response[1].choices[1].function_call # <<>>
Arguments == response[1].choices[1].function_call[1].arguments

\* What classify returns for the answer received.
ClassifyReturn == ReadArguments(response[1]).val

\* ------------------------------------------------------------------------
\* C1
\* ------------------------------------------------------------------------
FiveStepsSucceeded ==
    /\ ticket_text # <<>>
    /\ categories # <<>>
    /\ client # <<>>
    /\ result # <<>>
    /\ output # <<>> => (saves # <<>> /\ exc.at # "save")

HasAll(o, keys) == o.t = "obj" /\ \A i \in 1..Len(keys) : HasKey(o, keys[i])

AllHave(a, keys) ==
    a.t = "arr" /\ \A i \in 1..Len(a.items) : HasAll(a.items[i], keys)

\* The answer text is JSON with the fields the function schema requires.
Conforms(text) ==
    LET r == JsonLoads(text) IN
    /\ r.ok
    /\ HasAll(r.val, RequiredTop)
    /\ HasAll(Get(r.val, "case_1", JNull), RequiredCase1)
    /\ AllHave(Get(r.val, "case_2", JNull), RequiredCase2)
    /\ AllHave(Get(r.val, "case_3", JNull), RequiredCase3)

\* C2 as stated: once an answer has arrived, the run ends Done only if the
\* answer text conforms; for any other text it ends Failed (whatever the
\* error is called) and nothing is printed or saved.
C2_ValidatedOrFailed ==
    (pc = "exited" /\ HasArguments) =>
        /\ returned = <<0>> => Conforms(Arguments)
        /\ ~Conforms(Arguments) =>
             /\ returned = <<1>>
             /\ exc # NoException
             /\ stdout = <<>>
             /\ saves = <<>>

\* ------------------------------------------------------------------------
\* C3
\* ------------------------------------------------------------------------
RECURSIVE IsNode(_)
IsNode(n) ==
    /\ n.t = "obj"
    /\ HasKey(n, "value")
    /\ Get(n, "value", JNull).t = "str"
    /\ LET subs == Get(n, "subcategories", JArr(<<>>))
       IN subs.t = "arr" /\ \A i \in 1..Len(subs.items) : IsNode(subs.items[i])

IsForest(f) == f.t = "arr" /\ \A i \in 1..Len(f.items) : IsNode(f.items[i])

RECURSIVE Flatten(_, _)
RECURSIVE FlattenAll(_, _, _)
\* the root-to-leaf paths below a node, depth first, siblings in order
Flatten(n, prefix) ==
    LET path == Append(prefix, Get(n, "value", JNull).s)
        subs == Get(n, "subcategories", JArr(<<>>)).items
    IN IF Len(subs) = 0 THEN <<path>> ELSE FlattenAll(subs, 1, path)

FlattenAll(nodes, i, prefix) ==
    IF i > Len(nodes) THEN <<>>
    ELSE Flatten(nodes[i], prefix) \o FlattenAll(nodes, i + 1, prefix)

LeafListing(forest) ==
    LET paths == FlattenAll(forest.items, 1, <<>>)
    IN StrJoin("\n", [i \in 1..Len(paths) |-> StrJoin(" > ", paths[i])])

\* C3 as stated: for a loaded taxonomy forest, the listing placed in the
\* prompt has one line per leaf, the root-to-leaf values joined by " > ", in
\* depth-first order.
C3_LeafPathListing ==
    (messages # <<>> /\ IsForest(categories[1])) =>
        messages[2].content.paths = LeafListing(categories[1])

\* ------------------------------------------------------------------------
\* C4
\* ------------------------------------------------------------------------
\* The stage of the run.  The statements of main that follow classify's
\* return (display, save, return 0) complete the run and are counted with
\* Validating: each of them can still fail it.
Stage ==
    CASE pc = "start" -> "Idle"
      [] pc \in {"load_ticket", "load_categories", "log_loaded"} -> "Normalizing"
      [] pc \in {"init_client", "build_messages"} -> "Prompting"
      [] pc = "create" -> "AwaitingResponse"
      [] pc \in {"read_arguments", "display", "save", "return"} -> "Validating"
      [] pc = "except" -> "Failed"
      [] pc = "exited" -> IF returned = <<0>> THEN "Done" ELSE "Failed"

StageEdges ==
    { <<"Idle", "Normalizing">>, <<"Normalizing", "Prompting">>,
      <<"Prompting", "AwaitingResponse">>, <<"AwaitingResponse", "Validating">>,
      <<"Validating", "Done">>,
      <<"Normalizing", "Failed">>, <<"Prompting", "Failed">>,
      <<"AwaitingResponse", "Failed">>, <<"Validating", "Failed">> }

Effects == <<opened, ticket_text, categories, client, messages, requests,
             response, result, stdout, outFile, saves>>

StageStep ==
    /\ Stage' = Stage \/ <<Stage, Stage'>> \in StageEdges
    /\ requests' # requests => LoadsSucceeded
    /\ exc' # exc => (exc = NoException /\ Stage # "Failed" /\ Stage' = "Failed")
    /\ (Stage' # "Failed") => exc' = NoException
    /\ Stage = "Failed" => UNCHANGED Effects
    /\ Stage = "Done" => UNCHANGED vars
    /\ (Stage = "Failed" /\ pc = "exited") => UNCHANGED vars

\* C4: the stages are passed in the order Idle, Normalizing, Prompting,
\* AwaitingResponse, Validating, then Done or Failed; the service is called
\* only after both loads succeeded; a failure leads straight to Failed and
\* nothing of a later stage is executed; Done and Failed are final.
C4_StageOrder == [][StageStep]_vars

\* A run that passed every stage and ended Done.
C4_Witness ==
    /\ Stage = "Done"
    /\ Len(requests) = 1
    /\ Len(opened) = 2
    /\ stdout # <<>>

\* ------------------------------------------------------------------------
\* C5
\* ------------------------------------------------------------------------
CannotBeRead(file) == file.state \in {"missing", "unreadable", "undecodable"}

\* C5 as stated: load_data returns the pair of the files' contents, or fails
\* with TicketLoadError (ticket missing or not readable), or fails with
\* CategoriesLoadError (categories missing, not readable or not JSON); no
\* other error escapes.
C5_LoadDataOutcomes ==
    pc \notin {"start", "load_ticket", "load_categories"} =>
        \/ /\ exc.at \notin {"load_ticket", "load_categories"}
           /\ ~CannotBeRead(ticketFile)
           /\ ticket_text = <<ticketFile.content>>
           /\ ~CannotBeRead(catFile)
           /\ categories = <<JsonLoads(catFile.content).val>>
        \/ /\ exc = [type |-> "TicketLoadError", at |-> "load_ticket"]
           /\ CannotBeRead(ticketFile)
        \/ /\ exc = [type |-> "CategoriesLoadError", at |-> "load_categories"]
           /\ CannotBeRead(catFile) \/ ~JsonLoads(catFile.content).ok

\* ------------------------------------------------------------------------
\* C6
\* ------------------------------------------------------------------------
SaveStep ==
    (outFile' # outFile \/ saves' # saves) =>
        /\ LoadsSucceeded
        /\ exc = NoException
        /\ output # <<>>
        /\ response # <<>>
        /\ ReadArguments(response[1]).exc = NoExc
        /\ saves = <<>>
        /\ saves' = <<ClassifyReturn>>
        /\ stdout = <<[line |-> "classification",
                       shows |-> FormatResult(ClassifyReturn),
                       of |-> ClassifyReturn]>>
        /\ outFile' # outFile =>
             /\ outFile'.state = "present"
             /\ JsonLoads(outFile'.content).ok
             /\ JsonLoads(outFile'.content).val = ClassifyReturn

\* C6: the output file is written, and save_results called, only in a run
\* whose loads and classification succeeded, and the text written parses
\* back to the very object classify returned, which is also the one
\* displayed; a run that failed earlier never calls save_results and leaves
\* the file as it was.
C6_SaveOnlyResult == [][SaveStep]_vars

\* The result was written over an older output file.
C6_Witness ==
    /\ pc = "exited"
    /\ returned = <<0>>
    /\ Len(saves) = 1
    /\ outFile.state = "present"
    /\ outFile # OldFile
    /\ Len(ClassifyReturn.keys) = 2

\* ------------------------------------------------------------------------
\* C7
\* ------------------------------------------------------------------------
\* C7: with no API key configured the service is never called: the run
\* cannot get past the construction of the client, where it fails with the
\* client's OpenAIError, and it ends returning 1.
C7_NoCallWithoutCredential ==
    apiKey = <<>> =>
        /\ requests = <<>>
        /\ response = <<>>
        /\ client = <<>>
        /\ pc \notin {"build_messages", "create", "read_arguments",
                      "display", "save", "return"}
        /\ exc.at = "init_client" => exc.type = "OpenAIError"
        /\ (pc \in {"except", "exited"} /\ LoadsSucceeded /\ Sized(categories[1]))
             => exc.at = "init_client"
        /\ pc = "exited" => returned = <<1>>

\* Both inputs loaded, no key: the run failed at the client's construction.
C7_Witness ==
    /\ apiKey = <<>>
    /\ pc = "exited"
    /\ exc = [type |-> "OpenAIError", at |-> "init_client"]
    /\ LoadsSucceeded

\* ------------------------------------------------------------------------
\* C8
\* ------------------------------------------------------------------------
WrongInvocation ==
    /\ response # <<>>
    /\ Len(response[1].choices) > 0
    /\ \/ response[1].choices[1].function_call = <<>>
       \/ response[1].choices[1].function_call[1].name # FunctionName

\* C8 as stated, each kind read as the exception the code raises for it: a
\* timeout and any other fault of the call fail the run with that fault, and
\* an answer with no function call, or with a call of a function other than
\* classify_ticket, fails the run where the answer is read, with no result.
C8_DistinctErrorKinds ==
    pc = "exited" =>
        /\ exc.at = "create" => (returned = <<1>> /\ exc.type \in ServiceFaults)
        /\ WrongInvocation =>
             /\ returned = <<1>>
             /\ exc.at = "read_arguments"
             /\ result = <<>>

C10_TicketFirst ==
    /\ (opened # <<>>) => opened[1] = "ticket"
    /\ exc.at = "load_ticket" =>
        /\ opened = <<"ticket">>
        /\ exc.type = "TicketLoadError"
    /\ (CannotBeRead(ticketFile) /\ pc \in {"except", "exited"}) =>
        exc.at = "load_ticket"
    /\ exc.type = "CategoriesLoadError" => ticket_text # <<>>

====
